---- MODULE Spec2Model ----
(***************************************************************************)
(* Model of soe::PrimeNumberFinder (src/src/soe/PrimeNumberFinder.cpp):    *)
(* the k-tuplet lookup tables built by initCounts, the per-segment count   *)
(* and generate operations, and the lock that serializes the callbacks.    *)
(***************************************************************************)
EXTENDS Integers, Sequences, FiniteSets, TLC

(***************************************************************************)
(* Bounds of the model.                                                    *)
(***************************************************************************)
\* number of worker threads that process segments at the same time
NumWorkers == 2
\* largest segment (in bytes) handed to count in SpecCount
BufLen == 9
\* largest segment (in bytes) handed to segmentProcessed in SpecSeg
GenLen == 2

Workers == 1..NumWorkers

(***************************************************************************)
(* Program constants.                                                      *)
(***************************************************************************)
\* enum { END = 0xff + 1 } of PrimeNumberFinder.h
END == 256
\* kCounts_[i].resize(256)
TableSize == 256
\* entries per row of kTupletBitmasks_[7][5]
RowLen == 5
\* SieveOfEratosthenes::NUMBERS_PER_BYTE
NUMBERS_PER_BYTE == 30
\* SieveOfEratosthenes::bitValues_: bit k of byte j is segmentLow + 30 j + bitValues_[k]
bitValues_ == <<7, 11, 13, 17, 19, 23, 29, 31>>

\* a row of kTupletBitmasks_ with no END inside its five entries
kTupletBitmasks_NoEnd ==
  << <<END, 0, 0, 0, 0>>,
     <<6, 24, 192, END, 0>>,
     <<7, 14, 28, 56, 112>>,
     <<30, END, 0, 0, 0>>,
     <<31, 62, END, 0, 0>>,
     <<63, END, 0, 0, 0>>,
     <<254, END, 0, 0, 0>> >>

\* const uint_t kTupletBitmasks_[7][5]; row i is kTupletBitmasks_[i + 1],
\* entries an initializer leaves out are zero
kTupletBitmasks_ ==
  << <<END, 0, 0, 0, 0>>,
     <<6, 24, 192, END, 0>>,
     <<7, 14, 28, 56, END>>,
     <<30, END, 0, 0, 0>>,
     <<31, 62, END, 0, 0>>,
     <<63, END, 0, 0, 0>>,
     <<254, END, 0, 0, 0>> >>

\* flag names of PrimeSieve, indexed by kind + 1
COUNT_FLAGS == <<"COUNT_PRIMES", "COUNT_TWINS", "COUNT_TRIPLETS", "COUNT_QUADRUPLETS",
                 "COUNT_QUINTUPLETS", "COUNT_SEXTUPLETS", "COUNT_SEPTUPLETS">>
PRINT_FLAGS == <<"PRINT_PRIMES", "PRINT_TWINS", "PRINT_TRIPLETS", "PRINT_QUADRUPLETS",
                 "PRINT_QUINTUPLETS", "PRINT_SEXTUPLETS", "PRINT_SEPTUPLETS">>
\* the five single-value sinks in the order generate tests them
SINK_FLAGS == <<"CALLBACK32_PRIMES", "CALLBACK64_PRIMES", "CALLBACK32_OOP_PRIMES",
                "CALLBACK64_OOP_PRIMES", "PRINT_PRIMES">>
STATUS_FLAG == "CALCULATE_STATUS"

(***************************************************************************)
(* Pure helpers.                                                           *)
(***************************************************************************)
RECURSIVE And(_, _)
\* the C operator & on unsigned values
And(x, y) ==
  IF x = 0 \/ y = 0 THEN 0
  ELSE (x % 2) * (y % 2) + 2 * And(x \div 2, y \div 2)

RECURSIVE Pow2(_)
Pow2(k) == IF k = 0 THEN 1 ELSE 2 * Pow2(k - 1)

\* bit k of x
Bit(x, k) == (x \div Pow2(k)) % 2

RECURSIVE ScanFromLt(_, _, _, _)
\* the scan with the loop test *b < j in place of *b <= j
ScanFromLt(row, idx, j, n) ==
  IF idx >= RowLen THEN [count |-> n, stop |-> idx]
  ELSE IF row[idx + 1] < j
       THEN ScanFromLt(row, idx + 1, j,
                       IF And(j, row[idx + 1]) = row[idx + 1] THEN n + 1 ELSE n)
       ELSE [count |-> n, stop |-> idx]

RECURSIVE ScanFrom(_, _, _, _)
\* for (const uint_t* b = row + idx; *b <= j; b++) if ((j & *b) == *b) n++;
\* count is n at loop exit, stop the index of the entry that ended the loop
\* (RowLen when the loop left the row)
ScanFrom(row, idx, j, n) ==
  IF idx >= RowLen THEN [count |-> n, stop |-> idx]
  ELSE IF row[idx + 1] <= j
       THEN ScanFrom(row, idx + 1, j,
                     IF And(j, row[idx + 1]) = row[idx + 1] THEN n + 1 ELSE n)
       ELSE [count |-> n, stop |-> idx]

\* the bit positions set in x, in ascending order (the order in which
\* getNextPrime consumes the bits of a mask)
BitsOf(x) == SelectSeq(<<0, 1, 2, 3, 4, 5, 6, 7>>, LAMBDA k : Bit(x, k) = 1)

\* index of the lowest set bit of x (x > 0)
LowestBit(x) == CHOOSE k \in 0..7 : Bit(x, k) = 1 /\ \A m \in 0..(k - 1) : Bit(x, m) = 0

\* byte j of a segment buffer; a read behind the buffer yields no bits
ByteAt(s, j) == IF j >= 0 /\ j < Len(s) THEN s[j + 1] ELSE 0

RECURSIVE KernighanByte(_)
\* for (j = v[i]; j != 0; j &= j - 1) bitCount++;
KernighanByte(x) == IF x = 0 THEN 0 ELSE 1 + KernighanByte(And(x, x - 1))

RECURSIVE popcount_kernighan(_, _, _)
\* popcount_kernighan(&s[start], size): the 1 bits of size bytes from start
popcount_kernighan(s, start, size) ==
  IF size = 0 THEN 0
  ELSE KernighanByte(ByteAt(s, start)) + popcount_kernighan(s, start + 1, size - 1)

\* the 1 bits of the 64-bit word wd of the buffer (bytes 8 wd .. 8 wd + 7)
PopWord(s, wd) ==
  LET b(k) == ByteAt(s, 8 * wd + k)
      c(x) == Bit(x, 0) + Bit(x, 1) + Bit(x, 2) + Bit(x, 3)
              + Bit(x, 4) + Bit(x, 5) + Bit(x, 6) + Bit(x, 7)
  IN c(b(0)) + c(b(1)) + c(b(2)) + c(b(3)) + c(b(4)) + c(b(5)) + c(b(6)) + c(b(7))

RECURSIVE popcount_lauradoux(_, _)
\* popcount_lauradoux(sieve64, size64): the 1 bits of the first size64 words
popcount_lauradoux(s, size64) ==
  IF size64 = 0 THEN 0
  ELSE popcount_lauradoux(s, size64 - 1) + PopWord(s, size64 - 1)

\* uint_t size64 = sieveSize / 8;
Size64(n) == n \div 8

\* uint_t bytesLeft = sieveSize % 8;
BytesLeft(n) == n % 8

\* the tail taken to start at index size64
TailStartWordIndex(n) == Size64(n)

\* &sieve[sieveSize - bytesLeft]
TailStart(n) == n - BytesLeft(n)

\* primeCount of count(): word part plus the trailing bytes
PrimeCount(s, n) ==
  popcount_lauradoux(s, Size64(n))
  + (IF BytesLeft(n) > 0 THEN popcount_kernighan(s, TailStart(n), BytesLeft(n)) ELSE 0)

\* getNextPrime: the number that bit k of byte j of a segment stands for
getNextPrime(low, j, k) == low + j * NUMBERS_PER_BYTE + bitValues_[k + 1]

\* the values written between "(" and ")" for one matching bitmask
TupletRecord(low, j, mask) ==
  LET bs == BitsOf(mask) IN [n \in 1..Len(bs) |-> getNextPrime(low, j, bs[n])]

\* the table initCounts leaves behind for a requested kind (entry for byte b at b + 1)
FullTable ==
  [i \in 1..6 |-> [b \in 1..TableSize |-> ScanFrom(kTupletBitmasks_[i + 1], 0, b - 1, 0).count]]

\* kCounts_ after the constructor ran with the flags fl
KCountsAfterInit(fl) ==
  [i \in 1..6 |-> IF COUNT_FLAGS[i + 1] \in fl THEN FullTable[i] ELSE <<>>]

(***************************************************************************)
(* State.                                                                  *)
(***************************************************************************)
VARIABLES
  flags_,      \* ps_.flags_: the enabled flags of the run
  kCounts_,    \* kCounts_[i]: lookup table of kind i, <<>> until resized
  counts_,     \* ps_.counts_[0..6]
  lock_,       \* owner of the PrimeSieve lock, 0 when free
  out,         \* what the sinks received, in order
  processed_,  \* what updateStatus was told
  ctor,        \* position of the constructor: "new", "initCounts", "done"
  ic_i,        \* initCounts: i
  ic_j,        \* initCounts: j, -1 before kCounts_[i] is resized
  scanStop,    \* index of the last row entry a sentinel-terminated scan read
  pc,          \* position of each worker
  sieve,       \* sieve buffer of each worker
  sieveSize,   \* sieveSize of each worker's call
  segmentLow,  \* segmentLow_ of each worker's segment
  li,          \* local i of count / generate
  lj,          \* local j of generate
  lb,          \* generate: index of the bitmask pointer / remaining bits
  acc,         \* local primeCount / kCount
  tmp,         \* the value of counts_[i] read by +=
  sinkNo,      \* which of the five sink tests generate is at
  counts0,     \* history: counts_ before any call
  raced,       \* history: two += on one counter overlapped
  lockOrder    \* history: workers in the order they acquired the lock

vars == <<flags_, kCounts_, counts_, lock_, out, processed_, ctor, ic_i, ic_j, scanStop,
          pc, sieve, sieveSize, segmentLow, li, lj, lb, acc, tmp, sinkNo,
          counts0, raced, lockOrder>>

ctorVars == <<ctor, ic_i, ic_j, kCounts_>>
inputVars == <<flags_, sieve, sieveSize, segmentLow, counts0>>

\* ps_.isFlag(flag)
isFlag(f) == f \in flags_
\* ps_.isCount(i), ps_.isPrint(i)
isCount(i) == COUNT_FLAGS[i + 1] \in flags_
isPrint(i) == PRINT_FLAGS[i + 1] \in flags_
\* ps_.isFlag(COUNT_TWINS, COUNT_SEPTUPLETS), ps_.isFlag(PRINT_TWINS, PRINT_SEPTUPLETS)
isCountTuplets == \E i \in 1..6 : isCount(i)
isPrintTuplets == \E i \in 1..6 : isPrint(i)
\* ps_.isCount(), ps_.isGenerate(), ps_.isStatus()
isCountAny == \E i \in 0..6 : isCount(i)
isGenerate == isPrintTuplets \/ \E n \in 1..5 : isFlag(SINK_FLAGS[n])
isStatus == isFlag(STATUS_FLAG)

Sieve(w, j) == ByteAt(sieve[w], j)

(***************************************************************************)
(* Constructor and initCounts.                                             *)
(***************************************************************************)
\* PrimeNumberFinder::PrimeNumberFinder
Construct ==
  /\ ctor = "new"
  /\ IF isCountTuplets
     THEN ctor' = "initCounts" /\ ic_i' = 1 /\ ic_j' = -1
     ELSE ctor' = "done" /\ UNCHANGED <<ic_i, ic_j>>
  /\ UNCHANGED <<kCounts_, scanStop>>
  /\ UNCHANGED <<flags_, counts_, lock_, out, processed_, pc, sieve, sieveSize, segmentLow,
                 li, lj, lb, acc, tmp, sinkNo, counts0, raced, lockOrder>>

\* initCounts: head of the loop over i
InitCountsKind ==
  /\ ctor = "initCounts" /\ ic_j = -1
  /\ IF ic_i < 7
     THEN IF isCount(ic_i)
          THEN /\ kCounts_' = [kCounts_ EXCEPT ![ic_i] = [b \in 1..TableSize |-> 0]]
               /\ ic_j' = 0
               /\ UNCHANGED <<ic_i, ctor>>
          ELSE ic_i' = ic_i + 1 /\ UNCHANGED <<ic_j, kCounts_, ctor>>
     ELSE ctor' = "done" /\ UNCHANGED <<ic_i, ic_j, kCounts_>>
  /\ UNCHANGED scanStop
  /\ UNCHANGED <<flags_, counts_, lock_, out, processed_, pc, sieve, sieveSize, segmentLow,
                 li, lj, lb, acc, tmp, sinkNo, counts0, raced, lockOrder>>

\* initCounts: one pass of the loop over j
InitCountsEntry ==
  /\ ctor = "initCounts" /\ ic_j >= 0
  /\ IF ic_j < Len(kCounts_[ic_i])
     THEN LET r == ScanFrom(kTupletBitmasks_[ic_i + 1], 0, ic_j, 0)
          IN /\ kCounts_' = [kCounts_ EXCEPT ![ic_i][ic_j + 1] = r.count]
             /\ scanStop' = r.stop
             /\ ic_j' = ic_j + 1
             /\ UNCHANGED ic_i
     ELSE ic_i' = ic_i + 1 /\ ic_j' = -1 /\ UNCHANGED <<kCounts_, scanStop>>
  /\ UNCHANGED ctor
  /\ UNCHANGED <<flags_, counts_, lock_, out, processed_, pc, sieve, sieveSize, segmentLow,
                 li, lj, lb, acc, tmp, sinkNo, counts0, raced, lockOrder>>

(***************************************************************************)
(* segmentProcessed, count and generate of one worker w.                   *)
(***************************************************************************)
Goto(w, label) == pc' = [pc EXCEPT ![w] = label]

\* segmentProcessed: if (ps_.isCount()) count(sieve, sieveSize);
SegmentProcessed(w) ==
  /\ ctor = "done" /\ pc[w] = "start"
  /\ Goto(w, IF isCountAny THEN "count" ELSE "sp_generate")
  /\ UNCHANGED <<ctorVars, inputVars, counts_, lock_, out, processed_, scanStop,
                 li, lj, lb, acc, tmp, sinkNo, raced, lockOrder>>

\* count: the COUNT_PRIMES block up to the += on counts_[0]
CountPrimes(w) ==
  /\ pc[w] = "count"
  /\ IF isFlag("COUNT_PRIMES")
     THEN /\ acc' = [acc EXCEPT ![w] = PrimeCount(sieve[w], sieveSize[w])]
          /\ li' = [li EXCEPT ![w] = 0]
          /\ Goto(w, "add_load")
     ELSE /\ li' = [li EXCEPT ![w] = 1]
          /\ Goto(w, "kloop")
          /\ UNCHANGED acc
  /\ UNCHANGED <<ctorVars, inputVars, counts_, lock_, out, processed_, scanStop,
                 lj, lb, tmp, sinkNo, raced, lockOrder>>

\* kCount carried over from the previous kind
kCountCarried(prev) == prev

\* uint_t kCount = 0;
kCountInit(prev) == 0

RECURSIVE SumRange(_, _, _, _)
\* the sum of table[s[j]] for lo <= j < hi (split in halves to keep the
\* evaluation shallow; the sum does not depend on the order)
SumRange(table, s, lo, hi) ==
  IF hi <= lo THEN 0
  ELSE IF hi = lo + 1 THEN table[ByteAt(s, lo) + 1]
  ELSE LET mid == (lo + hi) \div 2
       IN SumRange(table, s, lo, mid) + SumRange(table, s, mid, hi)

\* for (j = 0; j < n; j++) kCount += table[s[j]];
SumTable(table, s, n, kCount) == kCount + SumRange(table, s, 0, n)

\* the kinds i >= from that the loop of count still has to count
KindsLeft(from) == {i \in 1..6 : i >= from /\ isCount(i)}

\* count: the loop over i up to the next kind that is counted, and its kCount
CountKind(w) ==
  /\ pc[w] = "kloop"
  /\ IF KindsLeft(li[w]) # {}
     THEN LET i == CHOOSE k \in KindsLeft(li[w]) : \A m \in KindsLeft(li[w]) : k <= m
          IN /\ li' = [li EXCEPT ![w] = i]
             /\ acc' = [acc EXCEPT ![w] =
                          SumTable(kCounts_[i], sieve[w], sieveSize[w], kCountInit(acc[w]))]
             /\ Goto(w, "add_load")
     ELSE /\ li' = [li EXCEPT ![w] = 7]
          /\ Goto(w, "sp_generate")
          /\ UNCHANGED acc
  /\ UNCHANGED <<ctorVars, inputVars, counts_, lock_, out, processed_, scanStop,
                 lj, lb, tmp, sinkNo, raced, lockOrder>>

\* ps_.counts_[i] += ...: the read of counts_[i]
AddLoad(w) ==
  /\ pc[w] = "add_load"
  /\ tmp' = [tmp EXCEPT ![w] = counts_[li[w]]]
  /\ raced' = (raced \/ \E v \in Workers \ {w} : pc[v] = "add_store" /\ li[v] = li[w])
  /\ Goto(w, "add_store")
  /\ UNCHANGED <<ctorVars, inputVars, counts_, lock_, out, processed_, scanStop,
                 li, lj, lb, acc, sinkNo, lockOrder>>

\* counts_[i] = delta
AssignedCount(old, delta) == delta

\* counts_[i] + delta
AddedCount(old, delta) == old + delta

\* ps_.counts_[i] += ...: the write of counts_[i]
AddStore(w) ==
  /\ pc[w] = "add_store"
  /\ counts_' = [counts_ EXCEPT ![li[w]] = AddedCount(tmp[w], acc[w])]
  /\ li' = [li EXCEPT ![w] = li[w] + 1]
  /\ Goto(w, "kloop")
  /\ UNCHANGED <<ctorVars, inputVars, lock_, out, processed_, scanStop,
                 lj, lb, acc, tmp, sinkNo, raced, lockOrder>>

\* segmentProcessed: if (ps_.isGenerate()) generate(sieve, sieveSize);
CallGenerate(w) ==
  /\ pc[w] = "sp_generate"
  /\ Goto(w, IF isGenerate THEN "generate" ELSE "sp_status")
  /\ UNCHANGED <<ctorVars, inputVars, counts_, lock_, out, processed_, scanStop,
                 li, lj, lb, acc, tmp, sinkNo, raced, lockOrder>>

\* for (; !ps_.isPrint(i); i++) ;
FirstPrint == CHOOSE i \in 1..6 : isPrint(i) /\ \A m \in 1..(i - 1) : ~isPrint(m)

\* generate: the choice between tuplet printing and the locked single-value mode
Generate(w) ==
  /\ pc[w] = "generate"
  /\ IF isPrintTuplets
     THEN /\ li' = [li EXCEPT ![w] = FirstPrint]
          /\ lj' = [lj EXCEPT ![w] = 0]
          /\ lb' = [lb EXCEPT ![w] = 0]
          /\ Goto(w, "tuplet")
     ELSE /\ Goto(w, "lock")
          /\ UNCHANGED <<li, lj, lb>>
  /\ UNCHANGED <<ctorVars, inputVars, counts_, lock_, out, processed_, scanStop,
                 acc, tmp, sinkNo, raced, lockOrder>>

\* *bitmask < sieve[j]
MaskBelow(mask, byte) == mask < byte

\* *bitmask <= sieve[j]
MaskInRange(mask, byte) == mask <= byte

\* generate: one pass of the loop over the bitmasks of kind i for byte j; a
\* match builds the record in the local ostringstream and hands it to
\* std::cout in one << (one entry of out)
GenerateTuplet(w) ==
  /\ pc[w] = "tuplet"
  /\ IF lj[w] < sieveSize[w]
     THEN IF lb[w] >= RowLen
          THEN \* the bitmask pointer left the row
               /\ scanStop' = lb[w]
               /\ lj' = [lj EXCEPT ![w] = lj[w] + 1]
               /\ lb' = [lb EXCEPT ![w] = 0]
               /\ UNCHANGED <<out, pc>>
          ELSE LET mask == kTupletBitmasks_[li[w] + 1][lb[w] + 1]
                   byte == Sieve(w, lj[w])
               IN /\ scanStop' = lb[w]
                  /\ IF MaskInRange(mask, byte)
                     THEN /\ out' = IF And(byte, mask) = mask
                                    THEN Append(out, [w |-> w, sink |-> "tuplet",
                                                      vals |-> TupletRecord(segmentLow[w], lj[w], mask)])
                                    ELSE out
                          /\ lb' = [lb EXCEPT ![w] = lb[w] + 1]
                          /\ UNCHANGED lj
                     ELSE /\ lj' = [lj EXCEPT ![w] = lj[w] + 1]
                          /\ lb' = [lb EXCEPT ![w] = 0]
                          /\ UNCHANGED out
                  /\ UNCHANGED pc
     ELSE /\ Goto(w, "sp_status")
          /\ UNCHANGED <<scanStop, lj, lb, out>>
  /\ UNCHANGED <<ctorVars, inputVars, counts_, lock_, processed_,
                 li, acc, tmp, sinkNo, raced, lockOrder>>

\* PrimeSieve::LockGuard::LockGuard: waits until the lock is free and takes it
LockGuardEnter(w) == lock_ = 0 /\ lock_' = w

\* PrimeSieve::LockGuard::~LockGuard: gives the lock back
LockGuardLeave(w) == lock_' = IF lock_ = w THEN 0 ELSE lock_

\* generate without the LockGuard
GenerateNoLock(w) ==
  /\ pc[w] = "lock"
  /\ sinkNo' = [sinkNo EXCEPT ![w] = 1]
  /\ Goto(w, "dispatch")
  /\ UNCHANGED <<ctorVars, inputVars, counts_, lock_, out, processed_, scanStop,
                 li, lj, lb, acc, tmp, raced, lockOrder>>

\* PrimeSieve::LockGuard(ps_); a temporary, destroyed at the end of the statement
GenerateLockTemporary(w) ==
  /\ pc[w] = "lock"
  /\ lock_ = 0
  /\ lockOrder' = Append(lockOrder, w)
  /\ sinkNo' = [sinkNo EXCEPT ![w] = 1]
  /\ Goto(w, "dispatch")
  /\ UNCHANGED <<ctorVars, inputVars, counts_, lock_, out, processed_, scanStop,
                 li, lj, lb, acc, tmp, raced>>

\* PrimeSieve::LockGuard lock(ps_); blocks until the lock is free
GenerateLock(w) ==
  /\ pc[w] = "lock"
  /\ LockGuardEnter(w)
  /\ lockOrder' = Append(lockOrder, w)
  /\ sinkNo' = [sinkNo EXCEPT ![w] = 1]
  /\ Goto(w, "dispatch")
  /\ UNCHANGED <<ctorVars, inputVars, counts_, out, processed_, scanStop,
                 li, lj, lb, acc, tmp, raced>>

\* the tests chained by else: after one sink ran no other is tried
NextSinkElse(n) == 6

\* the next of the five if (ps_.isFlag(...)) tests
NextSink(n) == n + 1

\* generate: one if (ps_.isFlag(...)) test of the locked block
GenerateDispatch(w) ==
  /\ pc[w] = "dispatch"
  /\ IF sinkNo[w] <= 5
     THEN IF isFlag(SINK_FLAGS[sinkNo[w]])
          THEN /\ lj' = [lj EXCEPT ![w] = 0]
               /\ lb' = [lb EXCEPT ![w] = IF sieveSize[w] > 0 THEN Sieve(w, 0) ELSE 0]
               /\ Goto(w, "emit")
               /\ UNCHANGED sinkNo
          ELSE /\ sinkNo' = [sinkNo EXCEPT ![w] = sinkNo[w] + 1]
               /\ UNCHANGED <<lj, lb, pc>>
     ELSE /\ Goto(w, "unlock")
          /\ UNCHANGED <<lj, lb, sinkNo>>
  /\ UNCHANGED <<ctorVars, inputVars, counts_, lock_, out, processed_, scanStop,
                 li, acc, tmp, raced, lockOrder>>

\* GENERATE_PRIMES(callback, type): one step of the loop over the 1 bits, in
\* ascending order; the values of the model fit every callback type
GeneratePrimes(w) ==
  /\ pc[w] = "emit"
  /\ IF lj[w] >= sieveSize[w]
     THEN /\ sinkNo' = [sinkNo EXCEPT ![w] = NextSink(sinkNo[w])]
          /\ Goto(w, "dispatch")
          /\ UNCHANGED <<lj, lb, out>>
     ELSE IF lb[w] # 0
          THEN /\ out' = Append(out, [w |-> w, sink |-> SINK_FLAGS[sinkNo[w]],
                                      vals |-> <<getNextPrime(segmentLow[w], lj[w], LowestBit(lb[w]))>>])
               /\ lb' = [lb EXCEPT ![w] = And(lb[w], lb[w] - 1)]
               /\ UNCHANGED <<lj, sinkNo, pc>>
          ELSE /\ lj' = [lj EXCEPT ![w] = lj[w] + 1]
               /\ lb' = [lb EXCEPT ![w] = IF lj[w] + 1 < sieveSize[w] THEN Sieve(w, lj[w] + 1) ELSE 0]
               /\ UNCHANGED <<out, sinkNo, pc>>
  /\ UNCHANGED <<ctorVars, inputVars, counts_, lock_, processed_, scanStop,
                 li, acc, tmp, raced, lockOrder>>

\* generate returns and the lock stays taken
GenerateLeak(w) ==
  /\ pc[w] = "unlock"
  /\ Goto(w, "sp_status")
  /\ UNCHANGED <<ctorVars, inputVars, counts_, lock_, out, processed_, scanStop,
                 li, lj, lb, acc, tmp, sinkNo, raced, lockOrder>>

\* end of the else block of generate: ~LockGuard releases the lock
GenerateUnlock(w) ==
  /\ pc[w] = "unlock"
  /\ LockGuardLeave(w)
  /\ Goto(w, "sp_status")
  /\ UNCHANGED <<ctorVars, inputVars, counts_, out, processed_, scanStop,
                 li, lj, lb, acc, tmp, sinkNo, raced, lockOrder>>

\* segmentProcessed: if (ps_.isStatus()) ps_.updateStatus(sieveSize * NUMBERS_PER_BYTE);
UpdateStatus(w) ==
  /\ pc[w] = "sp_status"
  /\ processed_' = IF isStatus THEN processed_ + sieveSize[w] * NUMBERS_PER_BYTE ELSE processed_
  /\ Goto(w, "done")
  /\ UNCHANGED <<ctorVars, inputVars, counts_, lock_, out, scanStop,
                 li, lj, lb, acc, tmp, sinkNo, raced, lockOrder>>

(***************************************************************************)
(* Inputs.                                                                 *)
(***************************************************************************)
\* segments of len bytes: background byte bg with one byte v at position p
HotSegs(len, vals) ==
  {[j \in 1..len |-> IF j = p THEN v ELSE bg] : p \in 1..len, v \in vals, bg \in vals}

\* the flags that request the kinds K to be counted / printed
CountSet(K) == {COUNT_FLAGS[k + 1] : k \in K}
PrintSet(K) == {PRINT_FLAGS[k + 1] : k \in K}

\* 0x00, 0x1e (two twins, two triplets, one quadruplet), 0xff (every pattern)
CountBytes == {0, 30, 255}
\* the same and 0x06 (one twin)
GenBytes == {0, 6, 30, 255}

\* every byte value once, in order
AllBytes == [j \in 1..TableSize |-> j - 1]

\* the state a run starts in: flags fl, tables kc, constructor at ct, counters
\* at c0, worker w given the buffer sv[w] with size sz[w], workers in act started
StartState(fl, kc, ct, c0, sv, sz, span, act) ==
  /\ flags_ = fl
  /\ kCounts_ = kc
  /\ ctor = ct
  /\ ic_i = 0
  /\ ic_j = -1
  /\ scanStop = 0
  /\ counts_ = [k \in 0..6 |-> c0]
  /\ counts0 = c0
  /\ lock_ = 0
  /\ out = <<>>
  /\ processed_ = 0
  /\ sieve = sv
  /\ sieveSize = sz
  /\ segmentLow = [w \in Workers |-> (w - 1) * span]
  /\ pc = [w \in Workers |-> IF w \in act THEN "start" ELSE "done"]
  /\ li = [w \in Workers |-> 0]
  /\ lj = [w \in Workers |-> 0]
  /\ lb = [w \in Workers |-> 0]
  /\ acc = [w \in Workers |-> 0]
  /\ tmp = [w \in Workers |-> 0]
  /\ sinkNo = [w \in Workers |-> 0]
  /\ raced = FALSE
  /\ lockOrder = <<>>

\* worker 1 gets the buffer s with size n, the other workers stay out
Alone(s) == [w \in Workers |-> IF w = 1 THEN s ELSE <<>>]
AloneSize(n) == [w \in Workers |-> IF w = 1 THEN n ELSE 0]

(***************************************************************************)
(* SpecInit: construction (initCounts) for any set of tuplet kinds, then   *)
(* one segment that holds every byte value, counted and printed.           *)
(***************************************************************************)
InitCtor ==
  \E K \in SUBSET (1..6) :
    StartState(CountSet(K) \cup PrintSet(K), [i \in 1..6 |-> <<>>], "new", 0,
               Alone(AllBytes), AloneSize(TableSize), TableSize * NUMBERS_PER_BYTE, {1})

NextCtor ==
  \/ Construct
  \/ InitCountsKind
  \/ InitCountsEntry
  \/ \E w \in Workers :
       \/ SegmentProcessed(w)
       \/ CountPrimes(w)
       \/ CountKind(w)
       \/ AddLoad(w)
       \/ AddStore(w)
       \/ CallGenerate(w)
       \/ Generate(w)
       \/ GenerateTuplet(w)
       \/ UpdateStatus(w)

SpecInit == InitCtor /\ [][NextCtor]_vars

(***************************************************************************)
(* SpecCount: one worker, count alone, on segments of every size up to     *)
(* BufLen and every set of count kinds.                                    *)
(***************************************************************************)
InitCount ==
  \E K \in (SUBSET (0..6)) \ {{}}, s \in HotSegs(BufLen, CountBytes), n \in 0..BufLen,
     c0 \in {3} :
    StartState(CountSet(K), KCountsAfterInit(CountSet(K)), "done", c0,
               Alone(s), AloneSize(n), BufLen * NUMBERS_PER_BYTE, {1})

NextCount ==
  \E w \in Workers :
    \/ SegmentProcessed(w)
    \/ CountPrimes(w)
    \/ CountKind(w)
    \/ AddLoad(w)
    \/ AddStore(w)
    \/ CallGenerate(w)
    \/ UpdateStatus(w)

SpecCount == InitCount /\ [][NextCount]_vars

(***************************************************************************)
(* SpecRace: every worker counts its own segment into the same counts_.    *)
(***************************************************************************)
RaceFlags == {CountSet({0}), CountSet({1}), CountSet({0, 2})}

\* the segments a worker of SpecRace, SpecGen and FairSpecGen may be given
\* (0x06: one twin; 0x1e: two twins, two triplets; 0xff: every pattern)
RaceSegs == {<<6>>, <<255, 30>>}
GenSegs == {<<>>, <<30>>, <<6, 6>>}

\* the length of the longest segment of S
MaxLenOf(S) == CHOOSE n \in {Len(s) : s \in S} : \A t \in S : Len(t) <= n

InitRace ==
  \E fl \in RaceFlags, sv \in [Workers -> RaceSegs], c0 \in {0, 3} :
    StartState(fl, KCountsAfterInit(fl), "done", c0,
               sv, [w \in Workers |-> Len(sv[w])],
               MaxLenOf(RaceSegs) * NUMBERS_PER_BYTE, Workers)

SpecRace == InitRace /\ [][NextCount]_vars

(***************************************************************************)
(* Spec: one worker, segmentProcessed with a generation mode.              *)
(***************************************************************************)
TupletFlags ==
  {CountSet({k}) \cup PrintSet({k}) \cup extra :
     k \in 1..6, extra \in {{}, {"COUNT_PRIMES"}, {"PRINT_SEPTUPLETS"}, {"PRINT_PRIMES", STATUS_FLAG}}}

SinkFlags ==
  (SUBSET {SINK_FLAGS[n] : n \in 1..5}) \cup {{"PRINT_PRIMES", STATUS_FLAG}}

Init ==
  \E fl \in TupletFlags \cup SinkFlags, s \in HotSegs(GenLen, GenBytes), n \in 0..GenLen :
    StartState(fl, KCountsAfterInit(fl), "done", 0,
               Alone(s), AloneSize(n), GenLen * NUMBERS_PER_BYTE, {1})

Next ==
  \E w \in Workers :
    \/ SegmentProcessed(w)
    \/ CountPrimes(w)
    \/ CountKind(w)
    \/ AddLoad(w)
    \/ AddStore(w)
    \/ CallGenerate(w)
    \/ Generate(w)
    \/ GenerateTuplet(w)
    \/ GenerateLock(w)
    \/ GenerateDispatch(w)
    \/ GeneratePrimes(w)
    \/ GenerateUnlock(w)
    \/ UpdateStatus(w)

Spec == Init /\ [][Next]_vars

(***************************************************************************)
(* SpecGen: every worker generates from its own segment; the segments of   *)
(* workers 1, 2, ... cover ascending, non-overlapping ranges.              *)
(***************************************************************************)
GenFlags ==
  {{"PRINT_PRIMES"}, {"CALLBACK64_PRIMES"}, {"CALLBACK32_PRIMES", "PRINT_PRIMES"},
   {"PRINT_TWINS"}, {"PRINT_TRIPLETS"}}

InitGen ==
  \E fl \in GenFlags, sv \in [Workers -> GenSegs] :
    StartState(fl, KCountsAfterInit(fl), "done", 0,
               sv, [w \in Workers |-> Len(sv[w])],
               MaxLenOf(GenSegs) * NUMBERS_PER_BYTE, Workers)

WorkerGen(w) ==
  \/ SegmentProcessed(w)
  \/ CallGenerate(w)
  \/ Generate(w)
  \/ GenerateTuplet(w)
  \/ GenerateLock(w)
  \/ GenerateDispatch(w)
  \/ GeneratePrimes(w)
  \/ GenerateUnlock(w)
  \/ UpdateStatus(w)

NextGen == \E w \in Workers : WorkerGen(w)

SpecGen == InitGen /\ [][NextGen]_vars

\* every thread that can take a step is eventually scheduled
FairSpecGen == SpecGen /\ \A w \in Workers : WF_vars(WorkerGen(w))

(***************************************************************************)
(* Reference definitions the claims compare the program with.              *)
(***************************************************************************)
\* the patterns of kind i: the entries of its row before the first END
PatternsOf(i) ==
  LET row == kTupletBitmasks_[i + 1]
  IN {row[n] : n \in {m \in 1..RowLen : \A q \in 1..m : row[q] # END}}

\* patterns of kind i that are submasks of byte b, every pattern looked at
BruteForce(i, b) == Cardinality({p \in PatternsOf(i) : And(b, p) = p})

BruteTable == [i \in 1..6 |-> [b \in 1..TableSize |-> BruteForce(i, b - 1)]]

\* 1 bits of s[0..n), bit by bit
RefPopcount(s, n) ==
  Cardinality({jk \in (0..(n - 1)) \X (0..7) : Bit(s[jk[1] + 1], jk[2]) = 1})

\* the (byte index, pattern) pairs of kind i that match in s[0..n)
RefMatches(i, s, n) ==
  {jp \in (0..(n - 1)) \X PatternsOf(i) : And(s[jp[1] + 1], jp[2]) = jp[2]}

\* what one count call adds to counts_[k] for the segment of worker w
RefDelta(w, k) ==
  IF k = 0 THEN RefPopcount(sieve[w], sieveSize[w])
  ELSE Cardinality(RefMatches(k, sieve[w], sieveSize[w]))

\* what count adds to counts_[k] when k is the only kind enabled
AloneDelta(w, k) ==
  IF k = 0 THEN PrimeCount(sieve[w], sieveSize[w])
  ELSE SumTable(KCountsAfterInit(CountSet({k}))[k], sieve[w], sieveSize[w], 0)

RECURSIVE SumOver(_, _)
SumOver(S, k) ==
  IF S = {} THEN 0
  ELSE LET w == CHOOSE v \in S : TRUE IN RefDelta(w, k) + SumOver(S \ {w}, k)

AllDone == \A w \in Workers : pc[w] = "done"

(***************************************************************************)
(* Claims.                                                                 *)
(***************************************************************************)

\* C5: after initCounts, for every requested kind k in 1..6 and every byte
\* value b, kCounts_[k][b] is the number of patterns of kind k that are
\* submasks of b, found without the early exit; a kind that was not requested
\* keeps an empty table.
C5_TableIsBruteForce ==
  ctor = "done" =>
    \A i \in 1..6 : kCounts_[i] = IF isCount(i) THEN BruteTable[i] ELSE <<>>

C5_Witness ==
  /\ ctor = "done"
  /\ isCount(1) /\ isCount(2) /\ ~isCount(3)
  /\ kCounts_[1][6 + 1] = 1
  /\ kCounts_[2][255 + 1] = 4
  /\ kCounts_[3] = <<>>

\* C10: every row of kTupletBitmasks_ is strictly increasing up to its END,
\* which lies within the five entries; END is above every byte value; and
\* every sentinel-terminated scan (initCounts, generate's tuplet loop) reads
\* no entry behind index 4.
C10_ScansStayInRow ==
  /\ \A r \in 1..7 :
       \E e \in 1..RowLen :
         /\ kTupletBitmasks_[r][e] = END
         /\ \A q \in 1..(e - 1) : kTupletBitmasks_[r][q] < kTupletBitmasks_[r][q + 1]
  /\ END > TableSize - 1
  /\ scanStop \in 0..(RowLen - 1)
  /\ \A w \in Workers : pc[w] = "tuplet" => lb[w] \in 0..(RowLen - 1)

C10_Witness ==
  /\ pc[1] = "tuplet"
  /\ li[1] = 2
  /\ Sieve(1, lj[1]) = 255
  /\ scanStop = 4
  /\ isCount(6) /\ Len(kCounts_[6]) = TableSize

\* C6: with COUNT_PRIMES enabled, count(s, n) adds to counts_[0] exactly the
\* number of 1 bits of s[0..n), for every n (below 8, multiples of 8, others).
C6_PrimeCountIsPopcount ==
  (pc[1] = "done" /\ isCount(0)) =>
    counts_[0] = counts0 + RefPopcount(sieve[1], sieveSize[1])

C6_Witness ==
  /\ pc[1] = "done" /\ isCount(0)
  /\ sieveSize[1] = 9
  /\ sieve[1][9] = 255 /\ sieve[1][1] = 30
  /\ counts_[0] = counts0 + 40

\* C8: one count call adds to every enabled counter what it adds when that
\* kind is the only one enabled, and changes neither a counter whose kind is
\* not enabled nor the segment.
C8_NoInterference ==
  /\ [][/\ sieve' = sieve
        /\ \A k \in 0..6 : ~isCount(k) => counts_'[k] = counts_[k]]_vars
  /\ [](pc[1] = "done" =>
          \A k \in 0..6 :
            counts_[k] = counts0 + (IF isCount(k) THEN AloneDelta(1, k) ELSE 0))

C8_Witness ==
  /\ pc[1] = "done"
  /\ isCount(0) /\ isCount(1) /\ isCount(3) /\ ~isCount(2)
  /\ counts_[0] > counts0 /\ counts_[1] > counts0 /\ counts_[3] > counts0
  /\ counts_[2] = counts0

\* the (byte index, bit) pairs of the 1 bits of worker w's segment
SetBits(w) ==
  {jk \in (0..(sieveSize[w] - 1)) \X (0..7) : Bit(Sieve(w, jk[1]), jk[2]) = 1}

\* the number a 1 bit of worker w's segment stands for
ValueOf(w, jk) == getNextPrime(segmentLow[w], jk[1], jk[2])

\* how often the sink f received the single value v
Deliveries(f, v) ==
  Cardinality({n \in 1..Len(out) : out[n].sink = f /\ out[n].vals = <<v>>})

EnabledSinks == {f \in {SINK_FLAGS[n] : n \in 1..5} : isFlag(f)}

\* C7: in tuplet printing mode for kind k, generate emits as many records as
\* count adds to counts_[k] for the same segment: one record for every (byte
\* index, pattern of kind k) pair that matches, and no other record.
C7_RecordsMatchCount ==
  (pc[1] = "done" /\ isPrintTuplets /\ isCount(FirstPrint)) =>
    LET k == FirstPrint
        m == RefMatches(k, sieve[1], sieveSize[1])
    IN /\ Len(out) = counts_[k] - counts0
       /\ Len(out) = Cardinality(m)
       /\ {out[n].vals : n \in 1..Len(out)}
            = {TupletRecord(segmentLow[1], jp[1], jp[2]) : jp \in m}
       /\ \A n \in 1..Len(out) : out[n].sink = "tuplet"

C7_Witness ==
  /\ pc[1] = "done"
  /\ isPrint(1) /\ isCount(1)
  /\ sieveSize[1] = 1 /\ Sieve(1, 0) = 6
  /\ counts_[1] = counts0 + 1
  /\ Len(out) = 1
  /\ out[1].vals = <<11, 13>>

\* C3 as stated: in single-value mode every 1 bit of the segment reaches
\* exactly one sink exactly once, whatever flags are enabled.
C3_Original ==
  (pc[1] = "done" /\ isGenerate /\ ~isPrintTuplets) =>
    \A jk \in SetBits(1) :
      Cardinality({n \in 1..Len(out) : out[n].vals = <<ValueOf(1, jk)>>}) = 1

\* C3 amended: in single-value mode every 1 bit of the segment reaches every
\* enabled sink exactly once and no sink that is not enabled, and nothing else
\* is delivered; so one sink is exercised exactly when one flag is enabled.
C3_EachEnabledSinkOnce ==
  (pc[1] = "done" /\ isGenerate /\ ~isPrintTuplets) =>
    /\ \A jk \in SetBits(1) : \A n \in 1..5 :
         Deliveries(SINK_FLAGS[n], ValueOf(1, jk))
           = (IF isFlag(SINK_FLAGS[n]) THEN 1 ELSE 0)
    /\ Len(out) = Cardinality(SetBits(1)) * Cardinality(EnabledSinks)

C3_Witness ==
  /\ pc[1] = "done"
  /\ flags_ = {"CALLBACK32_PRIMES", "PRINT_PRIMES"}
  /\ sieveSize[1] = 2 /\ Sieve(1, 0) = 6 /\ Sieve(1, 1) = 30
  /\ Len(out) = 12
  /\ Deliveries("CALLBACK32_PRIMES", 11) = 1
  /\ Deliveries("PRINT_PRIMES", 11) = 1

\* C4 as stated: once all count calls have completed, every enabled counter
\* has grown by the sum of the workers' deltas, in every interleaving.
C4_Original ==
  AllDone => \A k \in 0..6 : isCount(k) => counts_[k] = counts0 + SumOver(Workers, k)

\* C4 amended: count takes no lock; no counter ever exceeds its start value
\* plus the sum of the workers' deltas, and once all calls have completed
\* every enabled counter has grown by exactly that sum provided no two of the
\* += on that counter overlapped.
C4_SumUnlessOverlap ==
  /\ \A k \in 0..6 : counts_[k] <= counts0 + (IF isCount(k) THEN SumOver(Workers, k) ELSE 0)
  /\ lock_ = 0
  /\ (AllDone /\ ~raced) =>
       \A k \in 0..6 : isCount(k) => counts_[k] = counts0 + SumOver(Workers, k)

C4_Witness ==
  /\ AllDone /\ ~raced
  /\ isCount(0) /\ isCount(2)
  /\ sieve[1] = <<6>> /\ sieve[2] = <<255, 30>>
  /\ counts_[0] = counts0 + 14
  /\ counts_[2] = counts0 + 6

\* the positions of generate between taking and giving back the lock
Locked == {"dispatch", "emit", "unlock"}
\* the positions inside generate past the choice of the mode
Inside == Locked \cup {"tuplet"}

\* C1 as stated: in every generation mode (tuplet printing included) at most
\* one worker is inside generate at any instant.
C1_Original == Cardinality({w \in Workers : pc[w] \in Inside}) <= 1

\* C1 amended: in single-value print/callback mode a worker that is past the
\* LockGuard of generate holds the lock until the call ends, so at most one
\* worker is there at any instant; tuplet printing never takes the lock.
C1_LockedSingleValueMode ==
  /\ \A w \in Workers : pc[w] \in Locked => lock_ = w
  /\ Cardinality({w \in Workers : pc[w] \in Locked}) <= 1
  /\ isPrintTuplets => lock_ = 0

C1_Witness ==
  \E w, v \in Workers :
    /\ w # v
    /\ pc[w] = "emit" /\ lock_ = w /\ lb[w] # 0
    /\ pc[v] = "lock"

\* the first value of a record (a single value, or the lowest of a tuplet)
Key(r) == r.vals[1]

\* what one sink received is strictly ascending
Ascending(f) ==
  \A n, m \in 1..Len(out) :
    (n < m /\ out[n].sink = f /\ out[m].sink = f) => Key(out[n]) < Key(out[m])

\* C2 as stated (single-value mode): with workers on ascending,
\* non-overlapping ranges, what a sink receives is strictly ascending in every
\* interleaving.
C2_Original ==
  ~isPrintTuplets => \A n \in 1..5 : Ascending(SINK_FLAGS[n])

\* C2 amended: in single-value mode the values of one generate call reach the
\* sinks as one block that no other worker's output splits, strictly ascending
\* per sink; what a sink receives from all workers is strictly ascending when
\* the calls took the lock in the order of their ranges.
C2_BlocksInLockOrder ==
  ~isPrintTuplets =>
    /\ \A n, m, q \in 1..Len(out) :
         (n < m /\ m < q /\ out[n].w = out[q].w) => out[m].w = out[n].w
    /\ \A n, m \in 1..Len(out) :
         (n < m /\ out[n].w = out[m].w /\ out[n].sink = out[m].sink)
           => Key(out[n]) < Key(out[m])
    /\ (\A a, b \in 1..Len(lockOrder) : a < b => lockOrder[a] < lockOrder[b])
         => \A n \in 1..5 : Ascending(SINK_FLAGS[n])

C2_Witness ==
  /\ AllDone
  /\ ~isPrintTuplets
  /\ lockOrder[1] = 1 /\ lockOrder[2] = 2
  /\ \E n, m \in 1..Len(out) : n < m /\ out[n].w = 1 /\ out[m].w = 2
  /\ Len(out) >= 6

\* C9: in single-value mode the lock is taken only by a worker inside the
\* locked block of generate (so it is free when no worker is there), and under
\* fair scheduling every worker that waits for the lock gets it and its call
\* completes.
C9_LockReleasedAndLive ==
  /\ [](\A w \in Workers : lock_ = w => pc[w] \in Locked)
  /\ \A w \in Workers : (pc[w] = "lock") ~> (pc[w] = "done")

C9_Witness ==
  \E w, v \in Workers :
    /\ w # v
    /\ pc[w] = "done" /\ sinkNo[w] = 6
    /\ pc[v] = "emit" /\ lock_ = v
    /\ lockOrder = <<w, v>>

====
